---------------------------- MODULE Spec2Model ----------------------------
(***************************************************************************)
(* p3: a C++ class wrapper for PHP 7.  The repository holds three builds   *)
(* of the header: src/p3.h (casts only), src/unnamed/part_003 (casts and   *)
(* comparisons, namespace detail) and src/unnamed/part_002 (casts and      *)
(* comparisons through the phpType<> table).  The variable hdr says which  *)
(* header the extension was compiled with; every hook below is translated  *)
(* per header where the headers differ.                                    *)
(*                                                                         *)
(* A wrapped native type T is described by what the capability detector    *)
(* (P3_CREATE_HAS_MEMBER_FN_TRAITS) can see of it: the exact signature of  *)
(* each toXxx() method it declares and the exact set of compare()          *)
(* overloads it declares.  The native state is the counter of the example  *)
(* type Simple.                                                            *)
(*                                                                         *)
(* Host facts used (PHP 7.0-7.2, the "7.2.0-dev" the examples name):       *)
(* zend_bool is unsigned char, a type distinct from bool; a boolean zval   *)
(* has type IS_TRUE or IS_FALSE, never _IS_BOOL; zend_long is 64 bits.     *)
(***************************************************************************)
EXTENDS Integers, Sequences, FiniteSets, TLC

VARIABLES hdr,     \* the build of the header in use
          T,       \* the registered native type: [to, compare, name, ...]
          objs,    \* the object store: handle -> [handlers, counter, refcount]
          call,    \* the most recent hook or method call and what it produced
          classes, \* the class entries and handler tables registration left
          heap,    \* the allocator: next free address, one block per handle
          events,  \* the steps the most recent hook call performed, in order
          kern     \* the descriptor table and open files of the process

vars == <<hdr, T, objs, call, classes, heap, events, kern>>

---------------------------------------------------------------------------
\* Bounds of the model.

\* Wrapped instances of T the host creates.
MaxObjs == 2
\* The host stops calling takeANumber at this counter value.
MaxCounter == 2
\* The same, while comparisons are explored.
MaxCmpCounter == 1
\* Kind-specific compare() overloads a native type declares at most (the
\* same-type and the generic overload come on top).
MaxKindDecl == 1
\* References to one object the host holds at most.
MaxRefs == 2
\* Objects the host creates in all (created, cloned and placeholders).
MaxHandles == 3
\* MyFile instances the host makes (created and cloned) and files it opens,
\* in all, and the size it lets a file grow to.
MaxFiles == 3
MaxFileSize == 1

---------------------------------------------------------------------------
\* The builds of the header.

Headers == {"p3.h", "part_003", "part_002"}
CompareHeaders == {"part_003", "part_002"}

SUCCESS == "SUCCESS"
FAILURE == "FAILURE"

\* A call the process did not return from: the C library aborted it.
SIGABRT == "SIGABRT"

---------------------------------------------------------------------------
\* zvals.  One record shape for every kind: val carries a boolean as 0/1, an
\* integer, an integer-valued double, an array's element count, an object
\* handle or a resource handle; str carries a string's bytes; rc is the
\* reference count of the zend_string / zend_array the zval points to.
\* UNINIT is a slot nothing has written yet.

Zval(t, v, s, r) == [type |-> t, val |-> v, str |-> s, rc |-> r]

UNINIT == Zval("UNINIT", 0, <<>>, 0)
ZVAL_UNDEF == Zval("IS_UNDEF", 0, <<>>, 0)
ZVAL_NULL == Zval("IS_NULL", 0, <<>>, 0)
ZVAL_BOOL(b) == Zval(IF b THEN "IS_TRUE" ELSE "IS_FALSE", 0, <<>>, 0)
ZVAL_LONG(l) == Zval("IS_LONG", l, <<>>, 0)
ZVAL_DOUBLE(d) == Zval("IS_DOUBLE", d, <<>>, 0)
ZVAL_STR(s) == Zval("IS_STRING", 0, s.chars, s.rc)
ZVAL_ARR(a) == Zval("IS_ARRAY", a.count, <<>>, a.rc)
ZVAL_OBJ(h) == Zval("IS_OBJECT", h, <<>>, 0)
ZVAL_RES(h) == Zval("IS_RESOURCE", h, <<>>, 0)

\* zval_addref_p: one more reference to the counted value the zval points to.
zval_addref_p(z) == [z EXCEPT !.rc = @ + 1]

---------------------------------------------------------------------------
\* The native type as the capability detector sees it.

CastTypes == {"Bool", "Long", "Double", "String", "Array"}

\* The signature documented for each conversion: <ctype> toXxx() const.
DocCastCtype(p) ==
  CASE p = "Bool" -> "bool"
    [] p = "Long" -> "zend_long"
    [] p = "Double" -> "double"
    [] p = "String" -> "zend_string*"
    [] p = "Array" -> "zend_array*"

\* Return types a native type may give its toXxx() const ("none": no such
\* method).  "zend_bool" and "int" are methods of the right name whose
\* signature is not the documented one.
DeclCastCtypes(p) ==
  CASE p = "Bool" -> {"none", "bool", "zend_bool"}
    [] p = "Long" -> {"none", "zend_long", "int"}
    [] p = "Double" -> {"none", "double"}
    [] p = "String" -> {"none", "zend_string*"}
    [] p = "Array" -> {"none", "zend_array*"}

\* The compare() overloads of the header's documentation, by parameter list,
\* and int compare(zend_bool) const, which the documentation does not name.
CompareSigs ==
  {"", "bool", "zend_bool", "zend_long", "double", "const zend_string*",
   "const zend_array*", "const T&", "const zend_object*",
   "const zend_resource*", "const zval*"}

\* hasToXxx<T, ctype() const>::value: T declares exactly ctype toXxx() const.
hasTo(t, p, ctype) == t.to[p] = ctype

\* hasCompare<T, int(sig) const>::value: T declares exactly that overload.
hasCompare(t, sig) == sig \in t.compare

phpType_longAsDouble(p) ==
  CASE p = "Bool" -> [type |-> "zend_bool", const_type |-> "zend_bool"]
    [] p = "Long" -> [type |-> "zend_long", const_type |-> "double"]
    [] p = "Double" -> [type |-> "double", const_type |-> "double"]
    [] p = "String" ->
         [type |-> "zend_string*", const_type |-> "const zend_string*"]
    [] p = "Array" ->
         [type |-> "zend_array*", const_type |-> "const zend_array*"]
    [] p = "Object" ->
         [type |-> "zend_object*", const_type |-> "const zend_object*"]
    [] p = "Resource" ->
         [type |-> "zend_resource*", const_type |-> "const zend_resource*"]

\* phpType<ptype>::type and ::const_type of part_002.
phpType(p) ==
  CASE p = "Bool" -> [type |-> "zend_bool", const_type |-> "zend_bool"]
    [] p = "Long" -> [type |-> "zend_long", const_type |-> "zend_long"]
    [] p = "Double" -> [type |-> "double", const_type |-> "double"]
    [] p = "String" ->
         [type |-> "zend_string*", const_type |-> "const zend_string*"]
    [] p = "Array" ->
         [type |-> "zend_array*", const_type |-> "const zend_array*"]
    [] p = "Object" ->
         [type |-> "zend_object*", const_type |-> "const zend_object*"]
    [] p = "Resource" ->
         [type |-> "zend_resource*", const_type |-> "const zend_resource*"]

\* The NamedType enumerators: the kind tag each name stands for.
NamedType(p) ==
  CASE p = "Undef" -> "IS_UNDEF"
    [] p = "Null" -> "IS_NULL"
    [] p = "Bool" -> "_IS_BOOL"
    [] p = "True" -> "IS_TRUE"
    [] p = "False" -> "IS_FALSE"
    [] p = "Long" -> "IS_LONG"
    [] p = "Double" -> "IS_DOUBLE"
    [] p = "String" -> "IS_STRING"
    [] p = "Array" -> "IS_ARRAY"
    [] p = "Object" -> "IS_OBJECT"
    [] p = "Resource" -> "IS_RESOURCE"

---------------------------------------------------------------------------
\* The native methods (the example type Simple), on the native state o.

\* The decimal digits of a natural number, as snprintf("%ld") prints them.
RECURSIVE Digits(_)
Digits(n) ==
  IF n < 10 THEN <<n>> ELSE Digits(n \div 10) \o <<n % 10>>

snprintf_ld(n) == IF n < 0 THEN <<"-">> \o Digits(-n) ELSE Digits(n)

toBool(o) == o.counter # 0
toLong(o) == o.counter
toDouble(o) == o.counter
\* zend_string_alloc gives a string with one reference.
toString(o) == [chars |-> snprintf_ld(o.counter), rc |-> 1]
\* A fresh array (one reference) of counter elements.
toArray(o) == [count |-> o.counter, rc |-> 1]

ThreeWay(x, y) == IF x = y THEN 0 ELSE IF x < y THEN -1 ELSE 1


\* The value a compare() overload measures its argument as.  The argument
\* reaches the overload as the C value the hook extracted; the model keeps it
\* in zval shape (a bool as IS_TRUE/IS_FALSE, a pointer as what it points to,
\* a const T& as the handle of the wrapped instance).
Measure(os, sig, arg) ==
  CASE sig = "" -> 0
    [] sig \in {"bool", "zend_bool"} -> IF arg.type = "IS_TRUE" THEN 1 ELSE 0
    [] sig = "const zend_string*" -> Len(arg.str)
    [] sig = "const T&" -> os[arg.val].counter
    [] sig = "const zval*" ->
         (CASE arg.type = "IS_TRUE" -> 1
            [] arg.type = "IS_STRING" -> Len(arg.str)
            [] arg.type \in {"IS_UNDEF", "IS_NULL", "IS_FALSE"} -> 0
            [] OTHER -> arg.val)
    [] OTHER -> arg.val

compare_lessOrGreater(os, o, sig, arg) ==
  IF o.counter <= Measure(os, sig, arg) THEN -1 ELSE 1

\* int compare(...) const: -1, 0 or 1, consistent with the spaceship operator.
\* Simple::compare(zend_long) and Simple::compare(const Simple&) are the two
\* overloads the repository implements; the others follow the same rule.
compare(os, o, sig, arg) == ThreeWay(o.counter, Measure(os, sig, arg))

---------------------------------------------------------------------------
\* The address translation: the native payload of the object a zval holds.

toObject(os, z) == os[z.val]

IsWrappedT_anyObject(os, z) == z.type = "IS_OBJECT"

\* Whether the zval holds an object whose handler table is T's.
IsWrappedT(os, z) == z.type = "IS_OBJECT" /\ os[z.val].handlers = "T"

---------------------------------------------------------------------------
\* The cast hook.

CastCtype_intLong(p) ==
  CASE p = "Bool" -> "bool"
    [] p = "Long" -> "int"
    [] p = "Double" -> "double"
    [] p = "String" -> "zend_string*"
    [] p = "Array" -> "zend_array*"

\* The ctype each P3_CREATE_CAST_WRAPPER(ptype, ctype, zwrap) of p3.h and
\* part_003 is instantiated with.
CastCtype(p) ==
  CASE p = "Bool" -> "bool"
    [] p = "Long" -> "zend_long"
    [] p = "Double" -> "double"
    [] p = "String" -> "zend_string*"
    [] p = "Array" -> "zend_array*"

\* to##ptype() of the native object, as the C value of the conversion.
toPtype(p, o) ==
  CASE p = "Bool" -> ZVAL_BOOL(toBool(o))
    [] p = "Long" -> ZVAL_LONG(toLong(o))
    [] p = "Double" -> ZVAL_DOUBLE(toDouble(o))
    [] p = "String" -> ZVAL_STR(toString(o))
    [] p = "Array" -> ZVAL_ARR(toArray(o))

\* zwrap(dest, value) of p3.h and part_003: ZVAL_BOOL, ZVAL_LONG, ZVAL_DOUBLE,
\* ZVAL_STR, ZVAL_ARR store the value and take no reference.
zwrap(p, v) == v

\* phpType<ptype>::make(pzv, val) of part_002: the counted kinds are declared
\* with cpy = true, and the cast wrapper passes no third argument.
phpType_make(p, v, cpy) ==
  IF p \in {"String", "Array", "Object", "Resource"} /\ cpy
  THEN zval_addref_p(v)
  ELSE v

castObjectTo_detail_byName(t, p, o, dest) ==
  IF t.to[p] # "none"
  THEN [status |-> SUCCESS, dest |-> zwrap(p, toPtype(p, o))]
  ELSE [status |-> FAILURE, dest |-> dest]

\* detail::castObjectTo##ptype<T> of p3.h and part_003.
castObjectTo_detail(t, p, o, dest) ==
  IF hasTo(t, p, CastCtype(p))
  THEN [status |-> SUCCESS, dest |-> zwrap(p, toPtype(p, o))]
  ELSE [status |-> FAILURE, dest |-> dest]

\* castObjectTo##ptype<T> of part_002.
castObjectTo_phpType(t, p, o, dest) ==
  IF hasTo(t, p, phpType(p).type)
  THEN [status |-> SUCCESS, dest |-> phpType_make(p, toPtype(p, o), TRUE)]
  ELSE [status |-> FAILURE, dest |-> dest]

castObjectTo(h, t, p, o, dest) ==
  IF h = "part_002"
  THEN castObjectTo_phpType(t, p, o, dest)
  ELSE castObjectTo_detail(t, p, o, dest)

\* ZVAL_ZVAL(dest, src, 1, 0): dest is a copy of src and the object gains a
\* reference.
ZVAL_ZVAL_copy(os, src) ==
  [dest |-> src, objs |-> [os EXCEPT ![src.val].refcount = @ + 1]]

castObject_resourceNull(h, os, t, src, dest, type) ==
  LET Conv(p) ==
        LET r == castObjectTo(h, t, p, toObject(os, src), dest)
        IN  [status |-> r.status, dest |-> r.dest, objs |-> os,
             thrown |-> <<>>]
  IN
  CASE type = "IS_UNDEF" ->
         [status |-> SUCCESS, dest |-> ZVAL_UNDEF, objs |-> os,
          thrown |-> <<>>]
    [] type \in {"IS_NULL", "IS_RESOURCE"} ->
         [status |-> SUCCESS, dest |-> ZVAL_NULL, objs |-> os,
          thrown |-> <<>>]
    [] type = "_IS_BOOL" -> Conv("Bool")
    [] type = "IS_LONG" -> Conv("Long")
    [] type = "IS_DOUBLE" -> Conv("Double")
    [] type = "IS_STRING" -> Conv("String")
    [] type = "IS_ARRAY" -> Conv("Array")
    [] type = "IS_OBJECT" ->
         LET c == ZVAL_ZVAL_copy(os, src)
         IN  [status |-> SUCCESS, dest |-> c.dest, objs |-> c.objs,
              thrown |-> <<>>]
    [] OTHER ->
         [status |-> FAILURE, dest |-> dest, objs |-> os, thrown |-> <<>>]

castObject_resourceThrows(h, os, t, src, dest, type) ==
  LET r == castObject_resourceNull(h, os, t, src, dest, type)
  IN  IF type = "IS_RESOURCE"
      THEN [status |-> FAILURE, dest |-> dest, objs |-> os,
            thrown |-> <<[by |-> "hook", step |-> "zend_throw_exception",
                          arg |-> t.name]>>]
      ELSE r

\* castObject<T>(src, dest, type): [status, dest, objs] after the call and
\* the host errors it raised (it has no zend_throw_exception call).
castObject(h, os, t, src, dest, type) ==
  LET Conv(p) ==
        LET r == castObjectTo(h, t, p, toObject(os, src), dest)
        IN  [status |-> r.status, dest |-> r.dest, objs |-> os,
             thrown |-> <<>>]
  IN
  CASE type = "IS_UNDEF" ->
         [status |-> SUCCESS, dest |-> ZVAL_UNDEF, objs |-> os,
          thrown |-> <<>>]
    [] type = "IS_NULL" ->
         [status |-> SUCCESS, dest |-> ZVAL_NULL, objs |-> os,
          thrown |-> <<>>]
    [] type = "_IS_BOOL" -> Conv("Bool")
    [] type = "IS_LONG" -> Conv("Long")
    [] type = "IS_DOUBLE" -> Conv("Double")
    [] type = "IS_STRING" -> Conv("String")
    [] type = "IS_ARRAY" -> Conv("Array")
    [] type = "IS_OBJECT" ->
         LET c == ZVAL_ZVAL_copy(os, src)
         IN  [status |-> SUCCESS, dest |-> c.dest, objs |-> c.objs,
              thrown |-> <<>>]
    [] OTHER ->
         [status |-> FAILURE, dest |-> dest, objs |-> os, thrown |-> <<>>]

---------------------------------------------------------------------------
\* The compare hook.

\* What a compare wrapper hands on: the status, the result slot, the
\* overloads of T invoked so far (each with its argument), the number of
\* operand swaps and the host errors raised (zend_throw_exception calls).
CmpStart(rv) ==
  [status |-> FAILURE, rv |-> rv, calls |-> <<>>, swaps |-> 0,
   thrown |-> <<>>]

\* compareObjectToNull / compareObjectToSimilar / compareObjectToZval /
\* compareObjectTo##ptype: when T declares int compare(sig) const the overload
\* is called and its result stored as an integer; otherwise FAILURE and the
\* slot is not written.
compareObjectTo(os, t, r, o, sig, arg) ==
  IF hasCompare(t, sig)
  THEN [r EXCEPT !.status = SUCCESS,
                 !.rv = ZVAL_LONG(compare(os, o, sig, arg)),
                 !.calls = Append(@, [sig |-> sig, arg |-> arg])]
  ELSE [r EXCEPT !.status = FAILURE]

\* P3_COMPARABLE_TYPES of part_002.
ComparableTypes ==
  {"Bool", "Long", "Double", "String", "Array", "Object", "Resource"}

\* phpType<ptype>::get(b) of part_002: the C value of b's payload.
phpType_get(p, b) == IF p = "Bool" THEN ZVAL_BOOL(b.type = "IS_TRUE") ELSE b

\* The end of compareObject<T>: the generic overload when the switch left
\* FAILURE, and the integer 0 in the slot when that fails too.
failureResult_noInit(r) == r

failureResult(r) ==
  IF r.status = FAILURE THEN [r EXCEPT !.rv = ZVAL_LONG(0)] ELSE r

genericFallback(os, t, r1, obj, b) ==
  failureResult(IF r1.status = FAILURE
                THEN compareObjectTo(os, t, r1, obj, "const zval*", b)
                ELSE r1)

\* The switch of part_002 over Z_TYPE_P(b): IS_UNDEF and IS_NULL, then one
\* case per P3_COMPARABLE_TYPES whose label is the NamedType enumerator.
kindSwitch_part002(os, t, rv, obj, b) ==
  IF b.type \in {"IS_UNDEF", "IS_NULL"}
  THEN compareObjectTo(os, t, CmpStart(rv), obj, "", ZVAL_NULL)
  ELSE IF \E p \in ComparableTypes : NamedType(p) = b.type
  THEN LET p == CHOOSE q \in ComparableTypes : NamedType(q) = b.type
       IN  compareObjectTo(os, t, CmpStart(rv), obj,
                           phpType(p).const_type, phpType_get(p, b))
  ELSE CmpStart(rv)

compareObject_part002_kindFirst(os, t, rv, a, b) ==
  genericFallback(os, t,
                  kindSwitch_part002(os, t, rv, toObject(os, a), b),
                  toObject(os, a), b)

\* compareObject<T> of part_002 once a is known to be a wrapped T.
compareObject_part002(os, t, rv, a, b) ==
  LET obj == toObject(os, a)
      sim == compareObjectTo(os, t, CmpStart(rv), obj, "const T&", b)
  IN
  IF IsWrappedT(os, b) /\ sim.status = SUCCESS
  THEN sim
  ELSE genericFallback(os, t, kindSwitch_part002(os, t, rv, obj, b), obj, b)

\* compareObject<T> of part_003 once a is known to be a wrapped T.
compareObject_part003(os, t, rv, a, b) ==
  LET obj == toObject(os, a)
      To(sig, arg) == compareObjectTo(os, t, CmpStart(rv), obj, sig, arg)
      r1 ==
        CASE b.type \in {"IS_UNDEF", "IS_NULL"} -> To("", ZVAL_NULL)
          [] b.type = "IS_TRUE" -> To("bool", ZVAL_BOOL(TRUE))
          [] b.type = "IS_FALSE" -> To("bool", ZVAL_BOOL(FALSE))
          [] b.type = "IS_LONG" -> To("zend_long", b)
          [] b.type = "IS_DOUBLE" -> To("double", b)
          [] b.type = "IS_STRING" -> To("const zend_string*", b)
          [] b.type = "IS_ARRAY" -> To("const zend_array*", b)
          [] b.type = "IS_OBJECT" ->
               IF os[b.val].handlers = "T"
               THEN To("const T&", b)
               ELSE To("const zend_object*", b)
          [] b.type = "IS_RESOURCE" -> To("const zend_resource*", b)
          [] OTHER -> CmpStart(rv)
  IN  genericFallback(os, t, r1, obj, b)

\* compareObject<T>(rv, a, b): when a is not a wrapped T the operands are
\* swapped and an integer result negated on success.
RECURSIVE compareObject(_, _, _, _, _, _)

compareObject_noNegate(h, os, t, rv, a, b) ==
  IF ~IsWrappedT(os, a)
  THEN LET ret == compareObject(h, os, t, rv, b, a)
       IN  [ret EXCEPT !.swaps = @ + 1]
  ELSE IF h = "part_002"
  THEN compareObject_part002(os, t, rv, a, b)
  ELSE compareObject_part003(os, t, rv, a, b)

compareObject(h, os, t, rv, a, b) ==
  IF ~IsWrappedT(os, a)
  THEN LET ret == compareObject(h, os, t, rv, b, a)
       IN  IF ret.status = SUCCESS /\ ret.rv.type = "IS_LONG"
           THEN [ret EXCEPT !.rv = ZVAL_LONG(-ret.rv.val), !.swaps = @ + 1]
           ELSE [ret EXCEPT !.swaps = @ + 1]
  ELSE IF h = "part_002"
  THEN compareObject_part002(os, t, rv, a, b)
  ELSE compareObject_part003(os, t, rv, a, b)

---------------------------------------------------------------------------
\* The memory layout and the lifecycle hooks.

\* sizeof(zend_object) and sizeof(zval) of a 64-bit PHP 7 build; sizeof of the
\* two example types (Simple: one zend_long; MyFile: one int).
sizeof_zend_object == 56
sizeof_zval == 16
sizeof_Simple == 8
sizeof_MyFile == 4

\* zend_object_properties_size(ce): the header holds one property slot itself.
zend_object_properties_size(ce) ==
  sizeof_zval * (ce.default_properties_count - 1)

\* The allocator hands out addresses aligned to 8 bytes.
ZEND_MM_ALIGNED_SIZE(size) == ((size + 7) \div 8) * 8

toZendObject_headerSize(t, ptr) == ptr + sizeof_zend_object

\* toZendObject<T>(T *obj): reinterpret_cast<zend_object*>(obj + 1).
toZendObject(t, ptr) == ptr + 1 * t.size

toObject_ptr_headerSize(t, zobj) == zobj - sizeof_zend_object

\* toObject<T>(zend_object *obj): reinterpret_cast<T*>(obj) - 1.
toObject_ptr(t, zobj) == zobj - 1 * t.size

\* One step of a hook call: who performed it (the hook of p3 or the host
\* around it), what it was, and the class name it mentions.
Ev(by, step, arg) == [by |-> by, step |-> step, arg |-> arg]

\* A block of the allocator: the address ecalloc returned, its size, the
\* address of the header inside it, the class of the object, whether the
\* block is still allocated and the address it was released at.
Block(ptr, size, zobj, ce) ==
  [ptr |-> ptr, size |-> size, zobj |-> zobj, ce |-> ce, live |-> TRUE,
   released |-> 0]

\* The handler table of the host's standard objects.
std_object_handlers ==
  [offset |-> 0, free_obj |-> "zend_object_std_dtor",
   clone_obj |-> "zend_objects_clone_obj",
   cast_object |-> "zend_std_cast_object_tostring", compare |-> "nullptr"]

initClassEntry_cloneAlways(h, t) ==
  [ce |-> [name |-> t.name,
           create_object |->
             IF t.ctor THEN "createObject" ELSE "createThrownObject",
           default_properties_count |-> 0],
   handlers |->
     [std_object_handlers EXCEPT
        !.offset = t.size,
        !.free_obj = "dtorObject",
        !.clone_obj = "cloneObject",
        !.cast_object = "castObject",
        !.compare = IF h \in CompareHeaders THEN "compareObject" ELSE @]]

\* initClassEntry<T>(name, methods): the class entry registered and the
\* handler table of T.  src/p3.h installs no compare handler.
initClassEntry(h, t) ==
  [ce |-> [name |-> t.name,
           create_object |->
             IF t.ctor THEN "createObject" ELSE "createThrownObject",
           default_properties_count |-> 0],
   handlers |->
     [std_object_handlers EXCEPT
        !.offset = t.size,
        !.free_obj = "dtorObject",
        !.clone_obj = IF t.copy THEN "cloneObject" ELSE "nullptr",
        !.cast_object = "castObject",
        !.compare = IF h \in CompareHeaders THEN "compareObject" ELSE @]]

\* zend_objects_new(ce): a header-only object with the standard handlers.
zend_objects_new(os, hp, ce, obj) ==
  LET size == sizeof_zend_object + zend_object_properties_size(ce)
      ptr == hp.brk
  IN  [objs |-> Append(os, [obj EXCEPT !.handlers = "std", !.refcount = 1]),
       heap |-> [brk |-> ptr + ZEND_MM_ALIGNED_SIZE(size),
                 blk |-> Append(hp.blk, Block(ptr, size, ptr, ce.name))],
       events |-> <<Ev("hook", "zend_objects_new", ce.name)>>,
       handle |-> Len(os) + 1]

\* allocObject<T>(ce, init): one zeroed block for payload, header and
\* property storage; init constructs the payload (obj is the payload it
\* leaves, ctor the constructor it ran); the header is initialised for ce and
\* gets T's handler table.
allocObject(os, hp, t, ce, obj, ctor) ==
  LET size == t.size + sizeof_zend_object + zend_object_properties_size(ce)
      ptr == hp.brk
      zobj == toZendObject(t, ptr)
  IN  [objs |-> Append(os, [obj EXCEPT !.handlers = "T", !.refcount = 1]),
       heap |-> [brk |-> ptr + ZEND_MM_ALIGNED_SIZE(size),
                 blk |-> Append(hp.blk, Block(ptr, size, zobj, ce.name))],
       events |-> <<Ev("hook", "ecalloc", ""), Ev("hook", ctor, t.name),
                    Ev("hook", "zend_object_std_init", ce.name),
                    Ev("hook", "handlers", t.name)>>,
       handle |-> Len(os) + 1]

---------------------------------------------------------------------------
\* The state machine: the host runtime calling the hooks of one registered
\* native type.

\* The native types the comparisons are checked on: every set of compare()
\* overloads with at most MaxKindDecl kind-specific ones (no conversions),
\* and the types the casts are checked on: every choice of conversion
\* signatures (no comparisons).
NoCasts == [p \in CastTypes |-> "none"]

\* A native type: its conversions and comparisons, its class name, sizeof(T),
\* std::is_constructible<T> and std::is_constructible<T, const T&>.
NativeType(to, cmp, name, size, ctor, copy) ==
  [to |-> to, compare |-> cmp, name |-> name, size |-> size, ctor |-> ctor,
   copy |-> copy]

KindSigs == CompareSigs \ {"const T&", "const zval*"}

CompareTypeDescs ==
  {NativeType(NoCasts, K \cup G, "T", sizeof_Simple, TRUE, TRUE) :
     K \in {S \in SUBSET KindSigs : Cardinality(S) <= MaxKindDecl},
     G \in SUBSET {"const T&", "const zval*"}}

AllCastCtypes == UNION {DeclCastCtypes(p) : p \in CastTypes}

CastTypeDescs ==
  {NativeType(f, {}, "T", sizeof_Simple, TRUE, TRUE) :
     f \in {g \in [CastTypes -> AllCastCtypes] :
              \A p \in CastTypes : g[p] \in DeclCastCtypes(p)}}

\* An object of another class (the standard handler table), which the host
\* created before any hook of T runs.
ForeignObject == [handlers |-> "std", counter |-> 0, refcount |-> 1]

\* A block as allocObject leaves it: the payload default-constructed
\* (counter{0}), the header initialised with one reference, T's handlers.
NewObject == [handlers |-> "T", counter |-> 0, refcount |-> 1]

\* The values the host compares a wrapped instance with.
PlainOperands ==
  {ZVAL_UNDEF, ZVAL_NULL, ZVAL_BOOL(FALSE), ZVAL_BOOL(TRUE), ZVAL_LONG(1),
   ZVAL_DOUBLE(1), ZVAL_STR([chars |-> <<1>>, rc |-> 1]),
   ZVAL_ARR([count |-> 1, rc |-> 1]), ZVAL_RES(1)}

Live(os) == {h \in DOMAIN os : os[h].handlers # "freed"}

Operands(os) == PlainOperands \cup {ZVAL_OBJ(h) : h \in Live(os)}

Wrapped(os) == {h \in DOMAIN os : os[h].handlers = "T"}

\* The kind tags the host may ask a cast to: the fixed enumeration, and
\* IS_TRUE, IS_FALSE and IS_CALLABLE outside it.
CastKinds ==
  {"IS_UNDEF", "IS_NULL", "_IS_BOOL", "IS_LONG", "IS_DOUBLE", "IS_STRING",
   "IS_ARRAY", "IS_OBJECT", "IS_RESOURCE", "IS_TRUE", "IS_FALSE",
   "IS_CALLABLE"}

\* What the destination slot of a cast holds before the call.
DestBefore == {UNINIT, ZVAL_LONG(7)}

CallRec(op, a, b, kind, status, out, calls, swaps) ==
  [op |-> op, a |-> a, b |-> b, kind |-> kind, status |-> status,
   out |-> out, calls |-> calls, swaps |-> swaps]

NoCall == CallRec("none", UNINIT, UNINIT, "", "", UNINIT, <<>>, 0)

\* Simple of part_001, and a type with no default and no copy constructor
\* (the header's "MyFile() = delete").
Simple ==
  NativeType([p \in CastTypes |->
                IF p = "Array" THEN "none" ELSE DocCastCtype(p)],
             {"zend_long", "const T&"}, "T", sizeof_Simple, TRUE, TRUE)

Unconstructible == NativeType(NoCasts, {}, "U", sizeof_MyFile, FALSE, FALSE)

\* What module initialisation leaves: the class of T, a userland subclass of
\* it declaring two properties (it inherits create_object), the class of the
\* unconstructible type, and the handler table of each native type.
Registry(h, t) ==
  LET rt == initClassEntry(h, t)
      ru == initClassEntry(h, Unconstructible)
  IN  [ce |-> [c \in {"T", "TSub", "U"} |->
                 CASE c = "T" -> rt.ce
                   [] c = "TSub" ->
                        [rt.ce EXCEPT !.name = "TSub",
                                      !.default_properties_count = 2]
                   [] c = "U" -> ru.ce],
       handlers |-> [n \in {"T", "U"} |->
                       IF n = "T" THEN rt.handlers ELSE ru.handlers]]

\* The allocator before any object exists, and once the host has created
\* the foreign object and then n wrapped instances of class T.
EmptyHeap == [brk |-> 8, blk |-> <<>>]

\* The process before any file is opened: no descriptor beyond the standard
\* three, no open file description.
NoKernel == [fdt |-> <<>>, ofd |-> <<>>]

StdClass == [name |-> "stdClass", default_properties_count |-> 0]

RECURSIVE InitStore(_, _)
InitStore(t, n) ==
  IF n = 0
  THEN zend_objects_new(<<>>, EmptyHeap, StdClass, ForeignObject)
  ELSE LET s == InitStore(t, n - 1)
       IN  allocObject(s.objs, s.heap, t, initClassEntry("p3.h", t).ce,
                       NewObject, "T()")

InitCompare ==
  /\ hdr \in CompareHeaders
  /\ T \in CompareTypeDescs
  /\ objs = InitStore(T, 0).objs
  /\ heap = InitStore(T, 0).heap
  /\ classes = Registry(hdr, T)
  /\ events = <<>>
  /\ kern = NoKernel
  /\ call = NoCall

\* The casts are checked on one wrapped instance the host has created.
InitCast ==
  /\ hdr \in Headers
  /\ T \in CastTypeDescs
  /\ objs = InitStore(T, 1).objs
  /\ heap = InitStore(T, 1).heap
  /\ classes = Registry(hdr, T)
  /\ events = <<>>
  /\ kern = NoKernel
  /\ call = NoCall

\* The host runs one call at a time: a hook or method is entered only when
\* the result of the previous call has been taken.
Idle == call = NoCall

\* The host takes the result of the call that returned.
Return ==
  /\ ~Idle
  /\ call.status # SIGABRT
  /\ call' = NoCall
  /\ events' = <<>>
  /\ UNCHANGED <<hdr, T, objs, classes, heap, kern>>

\* createObject<T>(ce): the create hook of a default-constructible T.
p3_createObject(os, hp, t, ce) == allocObject(os, hp, t, ce, NewObject, "T()")

\* The host instantiates class T through its create hook, createObject<T>.
createObject ==
  /\ Idle
  /\ Cardinality(Wrapped(objs)) < MaxObjs
  /\ classes.ce["T"].create_object = "createObject"
  /\ LET r == p3_createObject(objs, heap, T, classes.ce["T"])
     IN  /\ objs' = r.objs
         /\ heap' = r.heap
         /\ events' = r.events
         /\ call' = CallRec("createObject", UNINIT, UNINIT, "T", SUCCESS,
                            ZVAL_OBJ(r.handle), <<>>, 0)
  /\ UNCHANGED <<hdr, T, classes, kern>>

takeANumber_postIncrement(h) ==
  /\ Idle
  /\ objs[h].handlers = "T"
  /\ objs' = [objs EXCEPT ![h].counter = @ + 1]
  /\ call' = CallRec("takeANumber", ZVAL_OBJ(h), UNINIT, "", SUCCESS,
                     ZVAL_LONG(objs[h].counter), <<>>, 0)
  /\ events' = <<>>
  /\ UNCHANGED <<hdr, T, classes, heap, kern>>

\* Simple::takeANumber: RETURN_LONG(++counter).
takeANumber(h) ==
  /\ Idle
  /\ objs[h].handlers = "T"
  /\ objs' = [objs EXCEPT ![h].counter = @ + 1]
  /\ call' = CallRec("takeANumber", ZVAL_OBJ(h), UNINIT, "", SUCCESS,
                     ZVAL_LONG(objs[h].counter + 1), <<>>, 0)
  /\ events' = <<>>
  /\ UNCHANGED <<hdr, T, classes, heap, kern>>

\* The host calls T::handlers.compare(rv, a, b): one operand at least holds
\* T's handler table, and rv is a slot not yet written.
Compare(a, b) ==
  /\ Idle
  /\ hdr \in CompareHeaders
  /\ IsWrappedT(objs, a) \/ IsWrappedT(objs, b)
  /\ LET r == compareObject(hdr, objs, T, UNINIT, a, b)
     IN  /\ call' = CallRec("compareObject", a, b, "", r.status, r.rv,
                            r.calls, r.swaps)
         /\ events' = r.thrown
  /\ UNCHANGED <<hdr, T, objs, classes, heap, kern>>

\* The host calls T::handlers.cast_object(src, dest, type) on a wrapped T.
Cast(h, type, dest) ==
  /\ Idle
  /\ objs[h].handlers = "T"
  /\ type = "IS_OBJECT" => objs[h].refcount < MaxRefs
  /\ LET r == castObject(hdr, objs, T, ZVAL_OBJ(h), dest, type)
     IN  /\ call' = CallRec("castObject", ZVAL_OBJ(h), dest, type, r.status,
                            r.dest, <<>>, 0)
         /\ objs' = r.objs
         /\ events' = r.thrown
  /\ UNCHANGED <<hdr, T, classes, heap, kern>>

\* createThrownObject<T>(ce): the error is raised, then the host's own
\* header-only object is returned; no constructor of T runs.
p3_createThrownObject_silent(os, hp, ce) ==
  zend_objects_new(os, hp, ce, ForeignObject)

\* The error zend_throw_exception_ex(zend_ce_error, 0, fmt, name) raises.
zend_throw_exception_ex(fmt, name) == Ev("hook", fmt, name)

p3_createThrownObject(os, hp, ce) ==
  LET r == zend_objects_new(os, hp, ce, ForeignObject)
  IN  [r EXCEPT !.events =
         <<zend_throw_exception_ex("%s may not be directly instantiated",
                                   ce.name)>> \o @]

\* The implicit copy constructor of Simple: the counter is copied.
Simple_copy(old) == [NewObject EXCEPT !.counter = old.counter]

p3_cloneObject_registeredClass(os, hp, cls, t, h) ==
  allocObject(os, hp, t, cls.ce["T"], Simple_copy(toObject(os, ZVAL_OBJ(h))),
              "T(const T&)")

\* cloneObject<T>(oldzval): a block for the class of the source object
\* (Z_OBJCE_P), the payload copy-constructed from the source.
p3_cloneObject(os, hp, cls, t, h) ==
  allocObject(os, hp, t, cls.ce[hp.blk[h].ce],
              Simple_copy(toObject(os, ZVAL_OBJ(h))), "T(const T&)")

p3_dtorObject_dtorFirst(os, t, h) ==
  [objs |-> [os EXCEPT ![h].handlers = "freed", ![h].refcount = 0],
   events |-> <<Ev("hook", "~T", t.name),
                Ev("hook", "zend_object_std_dtor", "")>>]

\* dtorObject<T>(obj): zend_object_std_dtor(obj), then ~T() on the payload.
p3_dtorObject(os, t, h) ==
  [objs |-> [os EXCEPT ![h].handlers = "freed", ![h].refcount = 0],
   events |-> <<Ev("hook", "zend_object_std_dtor", ""),
                Ev("hook", "~T", t.name)>>]

\* The free_obj handler of a standard object.
zend_object_std_dtor(os, h) ==
  [objs |-> [os EXCEPT ![h].handlers = "freed", ![h].refcount = 0],
   events |-> <<Ev("hook", "zend_object_std_dtor", "")>>]

\* The handler table an object carries.
HandlersOf(cls, o) ==
  IF o.handlers = "T" THEN cls.handlers["T"] ELSE std_object_handlers

\* The host instantiates class c (new c): it calls the class's create hook.
New(c) ==
  /\ Idle
  /\ Len(objs) < MaxHandles
  /\ classes.ce[c].create_object = "createObject" =>
       Cardinality(Wrapped(objs)) < MaxObjs
  /\ LET ce == classes.ce[c]
         r == IF ce.create_object = "createObject"
              THEN p3_createObject(objs, heap, T, ce)
              ELSE p3_createThrownObject(objs, heap, ce)
     IN  /\ objs' = r.objs
         /\ heap' = r.heap
         /\ events' = r.events
         /\ call' = CallRec(ce.create_object, UNINIT, UNINIT, c, SUCCESS,
                            ZVAL_OBJ(r.handle), <<>>, 0)
  /\ UNCHANGED <<hdr, T, classes, kern>>

\* The host clones a wrapped instance (clone $x): it calls the clone_obj
\* handler, and rejects the clone itself when the slot is empty.
Clone(h) ==
  /\ Idle
  /\ Len(objs) < MaxHandles
  /\ objs[h].handlers = "T"
  /\ HandlersOf(classes, objs[h]).clone_obj = "cloneObject"
  /\ LET r == p3_cloneObject(objs, heap, classes, T, h)
     IN  /\ objs' = r.objs
         /\ heap' = r.heap
         /\ events' = r.events
         /\ call' = CallRec("cloneObject", ZVAL_OBJ(h), UNINIT, heap.blk[h].ce,
                            SUCCESS, ZVAL_OBJ(r.handle), <<>>, 0)
  /\ UNCHANGED <<hdr, T, classes, kern>>

\* The host releases an object (zend_objects_store_del): it calls the
\* free_obj handler and then frees the block at the header address minus
\* handlers->offset.
Destroy(h) ==
  /\ Idle
  /\ h \in Live(objs)
  /\ LET tbl == HandlersOf(classes, objs[h])
         r == IF tbl.free_obj = "dtorObject"
              THEN p3_dtorObject(objs, T, h)
              ELSE zend_object_std_dtor(objs, h)
     IN  /\ objs' = r.objs
         /\ heap' = [heap EXCEPT
                       !.blk[h].live = FALSE,
                       !.blk[h].released = heap.blk[h].zobj - tbl.offset]
         /\ events' = r.events \o <<Ev("host", "efree", "")>>
         /\ call' = CallRec(tbl.free_obj, ZVAL_OBJ(h), UNINIT, heap.blk[h].ce,
                            SUCCESS, UNINIT, <<>>, 0)
  /\ UNCHANGED <<hdr, T, classes, kern>>

NextCompare ==
  \/ createObject
  \/ \E h \in DOMAIN objs : objs[h].counter < MaxCmpCounter /\ takeANumber(h)
  \/ \E a, b \in Operands(objs) : Compare(a, b)
  \/ Return

NextCast ==
  \/ \E h \in DOMAIN objs : objs[h].counter < MaxCounter /\ takeANumber(h)
  \/ Return
  \/ \E h \in DOMAIN objs, type \in CastKinds, dest \in DestBefore :
       Cast(h, type, dest)

SpecCompare == InitCompare /\ [][NextCompare]_vars

SpecCast == InitCast /\ [][NextCast]_vars

\* The example type Simple under the builds that compare: instances are
\* created, incremented, compared with one another and cast to integer.
InitSimple ==
  /\ hdr \in CompareHeaders
  /\ T = Simple
  /\ objs = InitStore(T, 0).objs
  /\ heap = InitStore(T, 0).heap
  /\ classes = Registry(hdr, T)
  /\ events = <<>>
  /\ kern = NoKernel
  /\ call = NoCall

NextSimple ==
  \/ createObject
  \/ \E h \in DOMAIN objs : objs[h].counter < MaxCounter /\ takeANumber(h)
  \/ \E a, b \in {ZVAL_OBJ(h) : h \in Wrapped(objs)} : Compare(a, b)
  \/ \E h \in DOMAIN objs, dest \in DestBefore : Cast(h, "IS_LONG", dest)
  \/ Return

SpecSimple == InitSimple /\ [][NextSimple]_vars

\* The lifecycle of wrapped objects under every build: instances of T, of a
\* userland subclass and of the unconstructible type are created, cloned,
\* used and destroyed.  T is Simple, with or without its copy constructor.
LifeTypes == {Simple, [Simple EXCEPT !.copy = FALSE]}

InitLife ==
  /\ hdr \in Headers
  /\ T \in LifeTypes
  /\ objs = InitStore(T, 0).objs
  /\ heap = InitStore(T, 0).heap
  /\ classes = Registry(hdr, T)
  /\ events = <<>>
  /\ kern = NoKernel
  /\ call = NoCall

NextLife ==
  \/ \E c \in DOMAIN classes.ce : New(c)
  \/ \E h \in DOMAIN objs : Clone(h)
  \/ \E h \in DOMAIN objs : Destroy(h)
  \/ \E h \in DOMAIN objs : objs[h].counter < MaxCmpCounter /\ takeANumber(h)
  \/ \E a, b \in {ZVAL_OBJ(h) : h \in Live(objs)} : Compare(a, b)
  \/ Return

SpecLife == InitLife /\ [][NextLife]_vars

\* Every hook with every input: objects are created and destroyed, and each
\* live wrapped instance is compared with every operand and cast to every
\* kind tag.
NextHooks ==
  \/ \E c \in DOMAIN classes.ce : New(c)
  \/ \E h \in DOMAIN objs : Clone(h)
  \/ \E h \in DOMAIN objs : Destroy(h)
  \/ \E a, b \in Operands(objs) : Compare(a, b)
  \/ \E h \in DOMAIN objs, type \in CastKinds, dest \in DestBefore :
       Cast(h, type, dest)
  \/ Return

SpecHooks == InitLife /\ [][NextHooks]_vars

---------------------------------------------------------------------------
\* The example type MyFile: a file descriptor as native state.  The process
\* side is the descriptor table (fdt[i] is descriptor i + 2: the open file
\* description it refers to, 0 when closed), the open file descriptions
\* (each with its file, position and access mode), the size of each file
\* (-1: the file does not exist), the access its permission bits give this
\* process, and whether the extension was built with _FORTIFY_SOURCE.

FileNames == {"f", "missing"}

ClosedOfd == [file |-> "", pos |-> 0, rd |-> FALSE, wr |-> FALSE, ap |-> FALSE]

\* What the permission bits of a file give the process: read and write
\* access (a privileged process has both whatever the bits are).
PermBits == [r : BOOLEAN, w : BOOLEAN]

\* The process when the extension is loaded: file "f" exists, holds one byte
\* and may be read and written; nothing is open.
InitKernel(fortified) ==
  [fdt |-> <<>>, ofd |-> <<>>,
   size |-> [n \in FileNames |-> IF n = "f" THEN 1 ELSE -1],
   acc |-> [n \in FileNames |-> [r |-> TRUE, w |-> TRUE]],
   fortified |-> fortified]

FdValid(k, fd) == fd - 2 \in DOMAIN k.fdt /\ k.fdt[fd - 2] # 0

\* The lowest descriptor not in use (0, 1 and 2 are the standard streams).
LowestFree(k) ==
  IF \E i \in DOMAIN k.fdt : k.fdt[i] = 0
  THEN 2 + CHOOSE i \in DOMAIN k.fdt :
             k.fdt[i] = 0 /\ \A j \in DOMAIN k.fdt : k.fdt[j] = 0 => i <= j
  ELSE 2 + Len(k.fdt) + 1

SetFd(k, fd, d) ==
  IF fd - 2 \in DOMAIN k.fdt
  THEN [k EXCEPT !.fdt[fd - 2] = d]
  ELSE [k EXCEPT !.fdt = Append(@, d)]

\* ::open(name, flags) as myfile.cpp calls it, with two arguments.  With
\* O_CREAT in flags the call is undefined, the third argument being read
\* from wherever the build left it: a fortified C library aborts the process
\* ("invalid open call: O_CREAT or O_TMPFILE without mode"), and otherwise a
\* file that is created gets the permission bits mode, which the caller
\* does not choose.  -1 when the file does not exist and O_CREAT is not set
\* (ENOENT), and when the file exists and its permission bits refuse the
\* access asked for (EACCES); else a new open file description at position 0
\* under the lowest free descriptor.
sys_open(k, name, flags, mode) ==
  IF flags.creat /\ k.fortified
  THEN [ret |-> -1, abort |-> TRUE, kern |-> k]
  ELSE IF k.size[name] < 0 /\ ~flags.creat
  THEN [ret |-> -1, abort |-> FALSE, kern |-> k]
  ELSE IF /\ k.size[name] >= 0
          /\ \/ flags.rd /\ ~k.acc[name].r
             \/ flags.wr /\ ~k.acc[name].w
  THEN [ret |-> -1, abort |-> FALSE, kern |-> k]
  ELSE LET fd == LowestFree(k)
           d == [file |-> name, pos |-> 0, rd |-> flags.rd, wr |-> flags.wr,
                 ap |-> flags.ap]
           k1 == [k EXCEPT !.ofd = Append(@, d),
                           !.size[name] = IF @ < 0 THEN 0 ELSE @,
                           !.acc[name] = IF k.size[name] < 0 THEN mode ELSE @]
       IN  [ret |-> fd, abort |-> FALSE,
            kern |-> SetFd(k1, fd, Len(k.ofd) + 1)]

\* ::close(fd): the descriptor is free again; the open file description
\* goes with its last descriptor.
sys_close(k, fd) ==
  IF ~FdValid(k, fd)
  THEN [ret |-> -1, kern |-> k]
  ELSE LET d == k.fdt[fd - 2]
           k1 == [k EXCEPT !.fdt[fd - 2] = 0]
       IN  [ret |-> 0,
            kern |-> IF \E i \in DOMAIN k1.fdt : k1.fdt[i] = d
                     THEN k1
                     ELSE [k1 EXCEPT !.ofd[d] = ClosedOfd]]

\* dup(fd): the lowest free descriptor, referring to the same open file
\* description; -1 for a descriptor that is not open.
sys_dup(k, fd) ==
  IF ~FdValid(k, fd)
  THEN [ret |-> -1, kern |-> k]
  ELSE LET new == LowestFree(k)
       IN  [ret |-> new, kern |-> SetFd(k, new, k.fdt[fd - 2])]

Min(x, y) == IF x < y THEN x ELSE y
Max(x, y) == IF x < y THEN y ELSE x

\* ::read(fd, buf, len): the bytes from the position to the end of the file,
\* len at most; the position advances by as many; -1 without read access.
sys_read(k, fd, len) ==
  IF ~FdValid(k, fd) \/ ~k.ofd[k.fdt[fd - 2]].rd
  THEN [ret |-> -1, kern |-> k]
  ELSE LET d == k.fdt[fd - 2]
           n == Max(0, Min(len, k.size[k.ofd[d].file] - k.ofd[d].pos))
       IN  [ret |-> n, kern |-> [k EXCEPT !.ofd[d].pos = @ + n]]

\* ::write(fd, buf, len): len bytes at the position (at the end of the file
\* under O_APPEND); the position advances by len; -1 without write access.
\* A write of no bytes returns 0 and moves nothing, under O_APPEND too.
sys_write(k, fd, len) ==
  IF ~FdValid(k, fd) \/ ~k.ofd[k.fdt[fd - 2]].wr
  THEN [ret |-> -1, kern |-> k]
  ELSE IF len = 0
  THEN [ret |-> 0, kern |-> k]
  ELSE LET d == k.fdt[fd - 2]
           f == k.ofd[d].file
           at == IF k.ofd[d].ap THEN k.size[f] ELSE k.ofd[d].pos
       IN  [ret |-> len,
            kern |-> [k EXCEPT !.ofd[d].pos = at + len,
                               !.size[f] = Max(@, at + len)]]

\* MyFile: int fd{-1}.
NewFile == [handlers |-> "T", fd |-> -1, refcount |-> 1]

MyFile ==
  NativeType(NoCasts, {}, "T", sizeof_MyFile, TRUE, TRUE)

MyFile_isOpen(o) == o.fd > -1

\* MyFile::close().
MyFile_close(k, o) ==
  IF ~MyFile_isOpen(o)
  THEN [obj |-> o, kern |-> k]
  ELSE [obj |-> [o EXCEPT !.fd = -1], kern |-> sys_close(k, o.fd).kern]

\* MyFile::open(filename, flags): close(), then fd = ::open(filename, flags);
\* mode is what ::open finds in place of its missing third argument.
MyFile_open(k, o, name, flags, mode) ==
  LET c == MyFile_close(k, o)
      r == sys_open(c.kern, name, flags, mode)
  IN  IF r.abort
      THEN [ret |-> FALSE, abort |-> TRUE, obj |-> c.obj, kern |-> r.kern]
      ELSE [ret |-> r.ret > -1, abort |-> FALSE,
            obj |-> [c.obj EXCEPT !.fd = r.ret], kern |-> r.kern]

\* MyFile::write(data): -1 when not open.
MyFile_write(k, o, len) ==
  IF ~MyFile_isOpen(o) THEN [ret |-> -1, kern |-> k] ELSE sys_write(k, o.fd, len)

\* A size_t as its eight bytes in memory, least significant first (the
\* layout of the builds the extension is made for): n within 0..2^24 - 1, or
\* a negative n within -256..-1 converted as C converts it.
size_t(n) ==
  [i \in 1..8 |->
     IF n < 0
     THEN IF i = 1 THEN 256 + n ELSE 255
     ELSE CASE i = 1 -> n % 256
            [] i = 2 -> (n \div 256) % 256
            [] i = 3 -> (n \div 65536) % 256
            [] OTHER -> 0]

\* The value of a size_t when it is below 2^24, and 2^24 for every larger
\* one.
size_t_value(bytes) ==
  IF \A i \in 4..8 : bytes[i] = 0
  THEN bytes[1] + 256 * bytes[2] + 65536 * bytes[3]
  ELSE 16777216

\* ZSTR_VAL(ret)[ZSTR_LEN(ret)] = 0 on a buffer of len + 1 bytes, ZSTR_LEN
\* holding what ::read returned (n): where the terminator goes and the
\* length field the string is left with.  An index within 0..len is in the
\* buffer.  The length a failed ::read left (-1, as a size_t the largest
\* value) indexes outside it, which is undefined: the store wraps to the
\* byte before the buffer, the most significant byte of the string's own
\* length field (the length becomes 0x00ffffffffffffff), or the compiler
\* drops it.
TerminatorStores(n, len) ==
  IF 0 <= n /\ n <= len
  THEN {[nul |-> "buffer", len |-> size_t(n)]}
  ELSE {[nul |-> "length field", len |-> [size_t(n) EXCEPT ![8] = 0]],
        [nul |-> "elided", len |-> size_t(n)]}

\* MyFile::read(len): nullptr ("null") when not open; else the string read,
\* whose length field is a size_t: the test ZSTR_LEN(ret) < 0 is never true,
\* and a failed ::read leaves its -1 there as the length.  outs holds the
\* results the terminator store allows.
MyFile_read(k, o, len) ==
  IF ~MyFile_isOpen(o)
  THEN [ret |-> "null", outs |-> {}, kern |-> k]
  ELSE LET r == sys_read(k, o.fd, len)
       IN  [ret |-> "string", outs |-> TerminatorStores(r.ret, len),
            kern |-> r.kern]

MyFile_copy_sameDescriptor(k, that) ==
  [obj |-> [NewFile EXCEPT !.fd = that.fd], kern |-> k]

\* MyFile::MyFile(const MyFile& that): fd = dup(that.fd).
MyFile_copy(k, that) ==
  LET r == sys_dup(k, that.fd)
  IN  [obj |-> [NewFile EXCEPT !.fd = r.ret], kern |-> r.kern]

\* The flags MyFile::__construct derives from the mode string (a sequence
\* of characters), each letter looked for with strchr: O_RDONLY (0) unless
\* the mode has 'a' or 'w'.
ModeFlags(mode) ==
  LET strchr(c) == \E i \in DOMAIN mode : mode[i] = c
      rd == strchr("r")
      ap == strchr("a")
      wr == strchr("w")
  IN  IF ap \/ wr
      THEN [rd |-> rd, wr |-> TRUE, ap |-> ap, creat |-> ~ap]
      ELSE [rd |-> TRUE, wr |-> FALSE, ap |-> FALSE, creat |-> FALSE]

\* The host instantiates MyFile through createObject<MyFile>.
MyFile_new ==
  /\ Idle
  /\ Len(objs) + Len(kern.ofd) < MaxFiles
  /\ LET r == allocObject(objs, heap, T, classes.ce["T"], NewFile, "T()")
     IN  /\ objs' = r.objs
         /\ heap' = r.heap
         /\ events' = r.events
         /\ call' = CallRec("createObject", UNINIT, UNINIT, "T", SUCCESS,
                            ZVAL_OBJ(r.handle), <<>>, 0)
  /\ UNCHANGED <<hdr, T, classes, kern>>

\* MyFile::__construct(name, mode): an Error when open() fails; the
\* process ends inside ::open when the C library aborts the call.
MyFile_construct(h, name, mode) ==
  /\ Idle
  /\ objs[h].handlers = "T"
  /\ \E undef \in PermBits :
       LET r == MyFile_open(kern, objs[h], name, ModeFlags(mode), undef)
       IN  /\ Len(objs) + Len(r.kern.ofd) <= MaxFiles
           /\ objs' = [objs EXCEPT ![h] = r.obj]
           /\ kern' = r.kern
           /\ events' =
                CASE r.abort ->
                       <<Ev("libc",
                            "invalid open call: O_CREAT or O_TMPFILE without mode",
                            name)>>
                  [] ~r.abort /\ r.ret -> <<>>
                  [] OTHER ->
                       <<Ev("method", "Failed opening file %s with flags %d",
                            name)>>
           /\ call' = CallRec("__construct", ZVAL_OBJ(h), UNINIT, "",
                              CASE r.abort -> SIGABRT
                                [] ~r.abort /\ r.ret -> SUCCESS
                                [] OTHER -> FAILURE,
                              UNINIT, <<>>, 0)
  /\ UNCHANGED <<hdr, T, classes, heap>>

\* P3_METHOD(MyFile, read): the string read (str carries the bytes of its
\* length field, kind where its terminator was stored), or an Error for a
\* length below 1 or a null result.
MyFile_zim_read(h, len) ==
  /\ Idle
  /\ objs[h].handlers = "T"
  /\ LET r == MyFile_read(kern, objs[h], len)
     IN  IF len < 1
         THEN /\ kern' = kern
              /\ events' = <<Ev("method", "Invalid length", "")>>
              /\ call' = CallRec("read", ZVAL_OBJ(h), ZVAL_LONG(len), "",
                                 FAILURE, UNINIT, <<>>, 0)
         ELSE IF r.ret = "null"
         THEN /\ kern' = r.kern
              /\ events' = <<Ev("method", "Failure reading from file", "")>>
              /\ call' = CallRec("read", ZVAL_OBJ(h), ZVAL_LONG(len), "",
                                 FAILURE, UNINIT, <<>>, 0)
         ELSE /\ kern' = r.kern
              /\ events' = <<>>
              /\ \E o \in r.outs :
                   call' = CallRec("read", ZVAL_OBJ(h), ZVAL_LONG(len), o.nul,
                                   SUCCESS, Zval("IS_STRING", 0, o.len, 1),
                                   <<>>, 0)
  /\ UNCHANGED <<hdr, T, objs, classes, heap>>

\* P3_METHOD(MyFile, write): the number of bytes written, or an Error.
MyFile_zim_write(h, len) ==
  /\ Idle
  /\ objs[h].handlers = "T"
  /\ LET r == MyFile_write(kern, objs[h], len)
     IN  /\ \A n \in FileNames : r.kern.size[n] <= MaxFileSize
         /\ kern' = r.kern
         /\ IF r.ret < 0
            THEN /\ events' = <<Ev("method", "Failure writing to file", "")>>
                 /\ call' = CallRec("write", ZVAL_OBJ(h), ZVAL_LONG(len), "",
                                    FAILURE, UNINIT, <<>>, 0)
            ELSE /\ events' = <<>>
                 /\ call' = CallRec("write", ZVAL_OBJ(h), ZVAL_LONG(len), "",
                                    SUCCESS, ZVAL_LONG(r.ret), <<>>, 0)
  /\ UNCHANGED <<hdr, T, objs, classes, heap>>

\* The host clones a MyFile: cloneObject<MyFile> with the copy constructor.
MyFile_clone(h) ==
  /\ Idle
  /\ Len(objs) + Len(kern.ofd) < MaxFiles
  /\ objs[h].handlers = "T"
  /\ HandlersOf(classes, objs[h]).clone_obj = "cloneObject"
  /\ LET c == MyFile_copy(kern, toObject(objs, ZVAL_OBJ(h)))
         r == allocObject(objs, heap, T, classes.ce[heap.blk[h].ce], c.obj,
                          "T(const T&)")
     IN  /\ objs' = r.objs
         /\ heap' = r.heap
         /\ kern' = c.kern
         /\ events' = r.events
         /\ call' = CallRec("cloneObject", ZVAL_OBJ(h), UNINIT, heap.blk[h].ce,
                            SUCCESS, ZVAL_OBJ(r.handle), <<>>, 0)
  /\ UNCHANGED <<hdr, T, classes>>

\* The host releases a MyFile: dtorObject<MyFile>, whose ~MyFile() closes the
\* descriptor, and then the block.
MyFile_destroy(h) ==
  /\ Idle
  /\ objs[h].handlers = "T"
  /\ LET r == p3_dtorObject(objs, T, h)
         c == MyFile_close(kern, objs[h])
     IN  /\ objs' = [r.objs EXCEPT ![h].fd = c.obj.fd]
         /\ kern' = c.kern
         /\ heap' = [heap EXCEPT
                       !.blk[h].live = FALSE,
                       !.blk[h].released =
                         heap.blk[h].zobj - classes.handlers["T"].offset]
         /\ events' = r.events \o <<Ev("host", "efree", "")>>
         /\ call' = CallRec("dtorObject", ZVAL_OBJ(h), UNINIT, heap.blk[h].ce,
                            SUCCESS, UNINIT, <<>>, 0)
  /\ UNCHANGED <<hdr, T, classes>>

\* The mode strings the scripts pass, letter by letter.
FileModes ==
  {<<"r">>, <<"w">>, <<"r", "w">>, <<"w", "r">>, <<"a">>, <<"a", "w">>,
   <<"w", "+">>, <<"w", "a", "r">>}

\* myfile.cpp includes "../p3.h", the build of src/p3.h.
InitFile ==
  /\ hdr = "p3.h"
  /\ T = MyFile
  /\ objs = <<>>
  /\ heap = EmptyHeap
  /\ classes = Registry(hdr, T)
  /\ events = <<>>
  /\ kern \in {InitKernel(fortified) : fortified \in BOOLEAN}
  /\ call = NoCall

NextFile ==
  \/ MyFile_new
  \/ \E h \in DOMAIN objs, name \in FileNames, mode \in FileModes :
       MyFile_construct(h, name, mode)
  \/ \E h \in DOMAIN objs, len \in 0..MaxFileSize : MyFile_zim_read(h, len)
  \/ \E h \in DOMAIN objs, len \in 0..MaxFileSize : MyFile_zim_write(h, len)
  \/ \E h \in DOMAIN objs : MyFile_clone(h)
  \/ \E h \in DOMAIN objs : MyFile_destroy(h)
  \/ Return

SpecFile == InitFile /\ [][NextFile]_vars

---------------------------------------------------------------------------
\* The claims about the compare hook (under SpecCompare).

\* The header's documentation of the comparisons: the overload that is to
\* serve an operand of each kind ("$foo <=> true - int compare(bool) const",
\* ...), for an operand that is not a wrapped T.
DocKindSig(type) ==
  CASE type \in {"IS_UNDEF", "IS_NULL"} -> ""
    [] type \in {"IS_TRUE", "IS_FALSE"} -> "bool"
    [] type = "IS_LONG" -> "zend_long"
    [] type = "IS_DOUBLE" -> "double"
    [] type = "IS_STRING" -> "const zend_string*"
    [] type = "IS_ARRAY" -> "const zend_array*"
    [] type = "IS_OBJECT" -> "const zend_object*"
    [] type = "IS_RESOURCE" -> "const zend_resource*"

IsCompareCall == call.op = "compareObject"
IsCastCall == call.op = "castObject"

\* The operand of the returned comparison that stands against the wrapped T.
CmpOther == IF IsWrappedT(objs, call.a) THEN call.b ELSE call.a

\* The one overload call the hook is to have made, and its result.
OnlyCall(sig, arg) == <<[sig |-> sig, arg |-> arg]>>
OverloadResult(self, sig, arg) ==
  ZVAL_LONG(compare(objs, toObject(objs, self), sig, arg))

\* C1: when only b is a wrapped T, compareObject(rv, a, b) returns the status
\* of compareObject(rv, b, a) and, on SUCCESS, leaves in rv the negation of
\* the integer the un-swapped call produces, whatever the kind of a.
C1_SwapNegates ==
  (IsCompareCall /\ ~IsWrappedT(objs, call.a) /\ IsWrappedT(objs, call.b)) =>
    LET u == compareObject(hdr, objs, T, UNINIT, call.b, call.a)
    IN  /\ call.status = u.status
        /\ call.status = SUCCESS =>
             /\ call.out.type = "IS_LONG"
             /\ u.rv.type = "IS_LONG"
             /\ call.out.val = -u.rv.val

\* C1 witness: an integer compared with a wrapped T behind it, answered 1
\* where the un-swapped call answers -1.
C1_Witness ==
  /\ IsCompareCall
  /\ call.a.type = "IS_LONG"
  /\ IsWrappedT(objs, call.b)
  /\ call.status = SUCCESS
  /\ call.out = ZVAL_LONG(1)
  /\ compareObject(hdr, objs, T, UNINIT, call.b, call.a).rv = ZVAL_LONG(-1)

\* C2: two wrapped instances of the same T and T declaring
\* int compare(const T&) const: SUCCESS, rv is a.compare(b), and no other
\* overload of T is invoked.
C2_SameTypeFirst ==
  (/\ IsCompareCall
   /\ IsWrappedT(objs, call.a)
   /\ IsWrappedT(objs, call.b)
   /\ hasCompare(T, "const T&")) =>
    /\ call.status = SUCCESS
    /\ call.out = OverloadResult(call.a, "const T&", call.b)
    /\ call.calls = OnlyCall("const T&", call.b)

\* C2 witness: T declares the same-type, the object-kind and the generic
\* overload, and two instances with different counters were compared.
C2_Witness ==
  /\ IsCompareCall
  /\ IsWrappedT(objs, call.a)
  /\ IsWrappedT(objs, call.b)
  /\ T.compare = {"const T&", "const zend_object*", "const zval*"}
  /\ call.status = SUCCESS
  /\ call.out = ZVAL_LONG(1)

\* C3: a wrapped T compared with a boolean, T declaring the documented
\* int compare(bool) const: SUCCESS with rv = a.compare(true) for true and
\* a.compare(false) for false, the boolean overload being the one called.
C3_BoolOverload ==
  (/\ IsCompareCall
   /\ IsWrappedT(objs, call.a)
   /\ call.b.type \in {"IS_TRUE", "IS_FALSE"}
   /\ hasCompare(T, "bool")) =>
    /\ call.status = SUCCESS
    /\ call.out = OverloadResult(call.a, "bool", call.b)
    /\ call.calls = OnlyCall("bool", call.b)

\* C4: a wrapped T compared with a value that is not a wrapped T: when T
\* declares the overload for exactly the kind of b (integer, float, string,
\* array, foreign object, resource; the zero-argument one for undefined and
\* null) the call returns SUCCESS with that overload's result on b's payload,
\* and no overload for another kind is ever invoked.
C4_KindOverload ==
  (IsCompareCall /\ IsWrappedT(objs, call.a) /\ ~IsWrappedT(objs, call.b)) =>
    /\ (/\ call.b.type \in {"IS_LONG", "IS_DOUBLE", "IS_STRING", "IS_ARRAY",
                            "IS_OBJECT", "IS_RESOURCE"}
        /\ hasCompare(T, DocKindSig(call.b.type))) =>
         /\ call.status = SUCCESS
         /\ call.out = OverloadResult(call.a, DocKindSig(call.b.type), call.b)
         /\ call.calls = OnlyCall(DocKindSig(call.b.type), call.b)
    /\ (call.b.type \in {"IS_UNDEF", "IS_NULL"} /\ hasCompare(T, "")) =>
         /\ call.status = SUCCESS
         /\ call.out = OverloadResult(call.a, "", ZVAL_NULL)
         /\ call.calls = OnlyCall("", ZVAL_NULL)
    /\ \A i \in DOMAIN call.calls :
         call.calls[i].sig \in {DocKindSig(call.b.type), "const zval*"}

\* C4 witness: a resource served by int compare(const zend_resource*) const
\* under the phpType<> build.
C4_Witness ==
  /\ IsCompareCall
  /\ hdr = "part_002"
  /\ IsWrappedT(objs, call.a)
  /\ call.b.type = "IS_RESOURCE"
  /\ hasCompare(T, "const zend_resource*")
  /\ call.status = SUCCESS
  /\ call.calls = OnlyCall("const zend_resource*", call.b)

\* Whether T declares an overload of an earlier tier for the comparison that
\* returned: the same-type one for a same-T operand, or the kind-specific
\* one matching the other operand's kind.
EarlierTierDeclared ==
  \/ IsWrappedT(objs, CmpOther) /\ hasCompare(T, "const T&")
  \/ hasCompare(T, DocKindSig(CmpOther.type))

\* C5: the generic int compare(const zval*) const is invoked if and only if
\* no earlier tier produced a result: never when T declares the same-type or
\* the matching kind-specific overload, and, when T declares none of them
\* but the generic one, SUCCESS with rv = a.compare(b) on the raw value.
C5_GenericLast ==
  (IsCompareCall /\ IsWrappedT(objs, call.a)) =>
    /\ EarlierTierDeclared =>
         \A i \in DOMAIN call.calls : call.calls[i].sig # "const zval*"
    /\ (~EarlierTierDeclared /\ hasCompare(T, "const zval*")) =>
         /\ call.status = SUCCESS
         /\ call.out = OverloadResult(call.a, "const zval*", call.b)
         /\ call.calls = OnlyCall("const zval*", call.b)

\* C6: with no applicable overload the call returns FAILURE and rv holds the
\* integer 0; on every return rv holds an integer, and on FAILURE, through
\* the swapped path too, that integer is 0.
C6_FailureIsZero ==
  IsCompareCall =>
    /\ call.out.type = "IS_LONG"
    /\ call.status = FAILURE => call.out = ZVAL_LONG(0)
    /\ (~EarlierTierDeclared /\ ~hasCompare(T, "const zval*")) =>
         /\ call.status = FAILURE
         /\ call.out = ZVAL_LONG(0)
         /\ call.calls = <<>>

\* C6 witness: a string compared with a wrapped T behind it, T declaring no
\* overload that applies: FAILURE through the swap, and 0 in rv.
C6_Witness ==
  /\ IsCompareCall
  /\ call.a.type = "IS_STRING"
  /\ IsWrappedT(objs, call.b)
  /\ call.swaps = 1
  /\ T.compare = {"zend_long"}
  /\ call.status = FAILURE
  /\ call.out = ZVAL_LONG(0)

---------------------------------------------------------------------------
\* The claims about the cast hook (under SpecCast).

\* The conversion a cast to each castable kind tag goes to.
CastPtype(type) ==
  CASE type = "_IS_BOOL" -> "Bool"
    [] type = "IS_LONG" -> "Long"
    [] type = "IS_DOUBLE" -> "Double"
    [] type = "IS_STRING" -> "String"
    [] type = "IS_ARRAY" -> "Array"

CastableKinds == {"_IS_BOOL", "IS_LONG", "IS_DOUBLE", "IS_STRING", "IS_ARRAY"}

\* The signature the build's detector is instantiated with for a conversion.
DetectedCtype(h, p) == IF h = "part_002" THEN phpType(p).type ELSE CastCtype(p)

\* C7: for a T exposing zend_long toLong() const, a cast to the integer kind
\* returns SUCCESS and dest holds exactly the integer toLong() returns for
\* the wrapped instance at the time of the call.
C7_CastLong ==
  (IsCastCall /\ call.kind = "IS_LONG" /\ hasTo(T, "Long", "zend_long")) =>
    /\ call.status = SUCCESS
    /\ call.out = ZVAL_LONG(toLong(toObject(objs, call.a)))

\* C7 witness: an instance incremented twice, cast to the integer 2.
C7_Witness ==
  /\ IsCastCall
  /\ call.kind = "IS_LONG"
  /\ hasTo(T, "Long", "zend_long")
  /\ toObject(objs, call.a).counter = 2
  /\ call.status = SUCCESS
  /\ call.out = ZVAL_LONG(2)

\* C8: for a T declaring the documented bool toBool() const, a cast to the
\* boolean kind returns SUCCESS with the boolean toBool() returns; each of
\* the five castable kinds succeeds exactly when T declares the conversion
\* with the signature the header documents.
C8_DocumentedSignatures ==
  (IsCastCall /\ call.kind \in CastableKinds) =>
    /\ call.status = SUCCESS <=>
         hasTo(T, CastPtype(call.kind), DocCastCtype(CastPtype(call.kind)))
    /\ (call.kind = "_IS_BOOL" /\ hasTo(T, "Bool", "bool")) =>
         /\ call.status = SUCCESS
         /\ call.out = ZVAL_BOOL(toBool(toObject(objs, call.a)))

\* C9: for a T lacking the conversion of a castable kind (no method of that
\* name, or one whose signature is not the one the detector asks for), the
\* cast returns FAILURE and dest keeps the value it had before the call.
C9_LackingFails ==
  (/\ IsCastCall
   /\ call.kind \in CastableKinds
   /\ ~hasTo(T, CastPtype(call.kind),
             DetectedCtype(hdr, CastPtype(call.kind)))) =>
    /\ call.status = FAILURE
    /\ call.out = call.b

\* C9 witness: a cast to boolean of a T whose toBool has another signature
\* than the detector's, into a slot that held the integer 7.
C9_Witness ==
  /\ IsCastCall
  /\ call.kind = "_IS_BOOL"
  /\ hdr = "p3.h"
  /\ T.to["Bool"] = "zend_bool"
  /\ call.b = ZVAL_LONG(7)
  /\ call.status = FAILURE
  /\ call.out = ZVAL_LONG(7)

\* C10: the target kinds that need no native method, for every T: null and
\* undefined return SUCCESS with dest null (undefined); object-identity
\* returns SUCCESS with dest the very object of src and the native state of
\* src as it was; resource returns FAILURE; a kind tag outside the enumeration
\* returns FAILURE.
C10_FixedKinds ==
  [][(call'.op = "castObject") =>
       /\ call'.kind = "IS_NULL" =>
            call'.status = SUCCESS /\ call'.out = ZVAL_NULL
       /\ call'.kind = "IS_UNDEF" =>
            call'.status = SUCCESS /\ call'.out = ZVAL_UNDEF
       /\ call'.kind = "IS_OBJECT" =>
            /\ call'.status = SUCCESS
            /\ call'.out = call'.a
            /\ objs'[call'.a.val].counter = objs[call'.a.val].counter
            /\ objs'[call'.a.val].handlers = objs[call'.a.val].handlers
       /\ call'.kind = "IS_RESOURCE" => call'.status = FAILURE
       /\ call'.kind \in {"IS_TRUE", "IS_FALSE", "IS_CALLABLE"} =>
            call'.status = FAILURE]_vars

\* C10 witness: a cast to the object kind of a T with every conversion
\* declared, answered with the object itself.
C10_Witness ==
  /\ IsCastCall
  /\ call.kind = "IS_OBJECT"
  /\ \A p \in CastTypes : T.to[p] = DocCastCtype(p)
  /\ call.status = SUCCESS
  /\ call.out = call.a
  /\ toObject(objs, call.a).counter = 1

---------------------------------------------------------------------------
\* The claims about the example type Simple (under SpecSimple).

\* C11: for Simple, which declares int compare(const Simple&) const, and any
\* two wrapped instances x, y however often incremented: compareObject for
\* (x, y) and for (y, x) both return SUCCESS, the one value is the negation
\* of the other, and the value for (x, x) is 0.
C11_SimpleAntisymmetric ==
  (IsCompareCall /\ IsWrappedT(objs, call.a) /\ IsWrappedT(objs, call.b)) =>
    LET rev == compareObject(hdr, objs, T, UNINIT, call.b, call.a)
    IN  /\ call.status = SUCCESS
        /\ rev.status = SUCCESS
        /\ call.out.type = "IS_LONG"
        /\ rev.rv.type = "IS_LONG"
        /\ call.out.val = -rev.rv.val
        /\ call.a = call.b => call.out = ZVAL_LONG(0)

\* C11 witness: two different instances, the first with the smaller counter,
\* compared to -1.
C11_Witness ==
  /\ IsCompareCall
  /\ IsWrappedT(objs, call.a)
  /\ IsWrappedT(objs, call.b)
  /\ call.a # call.b
  /\ toObject(objs, call.a).counter < toObject(objs, call.b).counter
  /\ call.status = SUCCESS
  /\ call.out = ZVAL_LONG(-1)

\* C12: two fresh instances have counter 0; each takeANumber returns the
\* counter it has just raised by one, so the n-th call on a fresh instance
\* returns n; the integer cast returns SUCCESS with the number of calls made;
\* with x incremented twice and y once, compareObject(x, y) is positive and
\* compareObject(y, x) negative, both SUCCESS, and the cast of x yields 2.
C12_CounterScenario ==
  /\ [](/\ (IsCastCall /\ call.kind = "IS_LONG") =>
            /\ call.status = SUCCESS
            /\ call.out = ZVAL_LONG(toObject(objs, call.a).counter)
        /\ (/\ IsCompareCall
            /\ IsWrappedT(objs, call.a)
            /\ IsWrappedT(objs, call.b)) =>
            LET x == toObject(objs, call.a).counter
                y == toObject(objs, call.b).counter
            IN  /\ (x = 2 /\ y = 1) =>
                     call.status = SUCCESS /\ call.out.val > 0
                /\ (x = 1 /\ y = 2) =>
                     call.status = SUCCESS /\ call.out.val < 0)
  /\ [][/\ call'.op = "createObject" => objs'[call'.out.val].counter = 0
        /\ call'.op = "takeANumber" =>
             /\ call'.out = ZVAL_LONG(objs[call'.a.val].counter + 1)
             /\ objs'[call'.a.val].counter = objs[call'.a.val].counter + 1]_vars

\* C12 witness: x incremented twice, y once, compared to a positive integer.
C12_Witness ==
  /\ IsCompareCall
  /\ IsWrappedT(objs, call.a)
  /\ IsWrappedT(objs, call.b)
  /\ toObject(objs, call.a).counter = 2
  /\ toObject(objs, call.b).counter = 1
  /\ call.status = SUCCESS
  /\ call.out = ZVAL_LONG(1)

---------------------------------------------------------------------------
\* The claims about the lifecycle hooks (under SpecLife).

\* The steps of the most recent hook call, by name, and how often one occurs.
Steps == [i \in DOMAIN events |-> events[i].step]
Count(step) == Cardinality({i \in DOMAIN events : events[i].step = step})

\* The objects a call acts on: no other object may change with it.
Acted(c) ==
  IF c.op \in {"takeANumber", "dtorObject", "zend_object_std_dtor",
               "castObject"}
  THEN {c.a.val}
  ELSE {}

\* Two blocks of the allocator share no byte.
Disjoint(b1, b2) == b1.ptr + b1.size <= b2.ptr \/ b2.ptr + b2.size <= b1.ptr

\* C13: cloneObject<T> of a copy-constructible T leaves a new object in a
\* block disjoint from the source's, sized and initialised for the class of
\* the source object (a subclass when the source is one), with the payload
\* copy-constructed from the source and T's handler table; the same-type
\* comparator then reports clone and source equal; and every later step
\* (increment, destruction) on one object leaves every other object's native
\* state and block as they were.
C13_CloneIndependent ==
  /\ [](call.op = "cloneObject" =>
          LET src == call.a.val
              new == call.out.val
              bs == heap.blk[src]
              bn == heap.blk[new]
          IN  /\ new # src
              /\ bn.live /\ bs.live
              /\ Disjoint(bn, bs)
              /\ bn.ce = bs.ce
              /\ bn.size = sizeof_Simple + sizeof_zend_object +
                             (IF bs.ce = "TSub" THEN sizeof_zval
                                                ELSE -sizeof_zval)
              /\ objs[new].handlers = "T"
              /\ objs[new].counter = objs[src].counter
              /\ Count("T(const T&)") = 1 /\ Count("T()") = 0
              /\ hdr \in CompareHeaders =>
                   LET r == compareObject(hdr, objs, T, UNINIT, call.out,
                                          call.a)
                   IN  r.status = SUCCESS /\ r.rv = ZVAL_LONG(0))
  /\ [][\A h \in DOMAIN objs :
          h \notin Acted(call') =>
            objs'[h] = objs[h] /\ heap'.blk[h] = heap.blk[h]]_vars

\* C13 witness: an instance of the subclass, incremented once, was cloned.
C13_Witness ==
  /\ call.op = "cloneObject"
  /\ heap.blk[call.a.val].ce = "TSub"
  /\ heap.blk[call.out.val].ce = "TSub"
  /\ objs[call.a.val].counter = 1
  /\ objs[call.out.val].counter = 1

\* C14: createObject<T> allocates one block of sizeof(T) + sizeof(header) +
\* the class's property storage, default-constructs the payload exactly once
\* at the start of the block, initialises the header for the requested class,
\* installs T's handler table and returns the header address, from which
\* toObject leads back to exactly the constructed payload.
C14_CreateLayout ==
  call.op = "createObject" =>
    LET new == call.out.val
        b == heap.blk[new]
    IN  /\ b.live
        /\ b.ce = call.kind
        /\ b.size = sizeof_Simple + sizeof_zend_object +
                      (IF call.kind = "TSub" THEN sizeof_zval ELSE -sizeof_zval)
        /\ Steps = <<"ecalloc", "T()", "zend_object_std_init", "handlers">>
        /\ events[3].arg = call.kind
        /\ objs[new].handlers = "T"
        /\ objs[new].counter = 0
        /\ objs[new].refcount = 1
        /\ toObject_ptr(T, b.zobj) = b.ptr
        /\ \A h \in DOMAIN objs : (h # new /\ heap.blk[h].live) =>
             Disjoint(b, heap.blk[h])

\* C14 witness: an instance of the subclass was created behind another
\* wrapped instance.
C14_Witness ==
  /\ call.op = "createObject"
  /\ call.kind = "TSub"
  /\ Cardinality(Wrapped(objs)) = 2
  /\ heap.blk[call.out.val].zobj = heap.blk[call.out.val].ptr + sizeof_Simple

\* C15: the create hook of a type without default constructor is
\* createThrownObject<T>; each call raises exactly one error, "<name> may not
\* be directly instantiated" with the name of the class, runs no constructor
\* of T and returns a live header-only object with the standard handlers;
\* the call changes no existing object, block or handler table, and every
\* hook on the instances of the other type (compare, cast, create, destroy)
\* gives what it gave before the call.
C15_ThrownCreate ==
  /\ [](/\ classes.ce["U"].create_object = "createThrownObject"
        /\ call.op = "createThrownObject" =>
             LET new == call.out.val
                 b == heap.blk[new]
             IN  /\ classes.ce[call.kind].create_object = "createThrownObject"
                 /\ Steps = <<"%s may not be directly instantiated",
                              "zend_objects_new">>
                 /\ events[1].arg = call.kind
                 /\ call.kind = "U"
                 /\ Count("T()") = 0 /\ Count("T(const T&)") = 0
                 /\ objs[new].handlers = "std"
                 /\ objs[new].refcount = 1
                 /\ b.live
                 /\ b.ce = call.kind
                 /\ b.zobj = b.ptr
                 /\ b.size = sizeof_zend_object - sizeof_zval)
  /\ [][call'.op = "createThrownObject" =>
          /\ classes' = classes
          /\ \A h \in DOMAIN objs :
               objs'[h] = objs[h] /\ heap'.blk[h] = heap.blk[h]
          /\ \A h \in Wrapped(objs) :
               /\ \A type \in CastKinds :
                    LET before == castObject(hdr, objs, T, ZVAL_OBJ(h),
                                             UNINIT, type)
                        after == castObject(hdr, objs', T, ZVAL_OBJ(h),
                                            UNINIT, type)
                    IN  /\ after.status = before.status
                        /\ after.dest = before.dest
                        /\ after.objs[h] = before.objs[h]
               /\ hdr \in CompareHeaders =>
                    \A b \in Operands(objs) :
                      compareObject(hdr, objs', T, UNINIT, ZVAL_OBJ(h), b) =
                        compareObject(hdr, objs, T, UNINIT, ZVAL_OBJ(h), b)
               /\ p3_dtorObject(objs', T, h).events =
                    p3_dtorObject(objs, T, h).events
          /\ LET before == p3_createObject(objs, heap, T, classes.ce["T"])
                 after == p3_createObject(objs', heap', T, classes'.ce["T"])
             IN  /\ after.objs[after.handle] = before.objs[before.handle]
                 /\ after.events = before.events
                 /\ after.heap.blk[after.handle].size =
                      before.heap.blk[before.handle].size]_vars

\* C15 witness: the unconstructible class was instantiated while a wrapped
\* instance with counter 1 was alive.
C15_Witness ==
  /\ call.op = "createThrownObject"
  /\ call.kind = "U"
  /\ events[1] = Ev("hook", "%s may not be directly instantiated", "U")
  /\ objs[call.out.val].handlers = "std"
  /\ \E h \in Wrapped(objs) : objs[h].counter = 1

\* C16 as stated: dtorObject<T> runs T's destructor, then the runtime's
\* per-header teardown, then releases the block, each once.
C16_DtorOrderAsStated ==
  call.op = "dtorObject" =>
    /\ Steps = <<"~T", "zend_object_std_dtor", "efree">>
    /\ \A i \in DOMAIN events : events[i].by = "hook"

\* C16 amended: dtorObject<T> runs the runtime's per-header teardown
\* (zend_object_std_dtor) first and T's destructor second, each exactly once,
\* and does not release the block; the host releases it once, after the hook
\* has returned, at the address the allocator had returned.
C16_DtorOrder ==
  call.op = "dtorObject" =>
    LET h == call.a.val
    IN  /\ events = <<Ev("hook", "zend_object_std_dtor", ""),
                      Ev("hook", "~T", "T"), Ev("host", "efree", "")>>
        /\ objs[h].handlers = "freed"
        /\ ~heap.blk[h].live
        /\ heap.blk[h].released = heap.blk[h].ptr

\* C16 witness: an instance of the subclass was destroyed while another
\* wrapped instance stays alive.
C16_Witness ==
  /\ call.op = "dtorObject"
  /\ heap.blk[call.a.val].ce = "TSub"
  /\ Steps = <<"zend_object_std_dtor", "~T", "efree">>
  /\ Wrapped(objs) # {}

\* The blocks allocObject<T> made, live or released.
PayloadBlocks == {h \in DOMAIN heap.blk : heap.blk[h].ce \in {"T", "TSub"}}

\* The two translations are inverse to each other on every address.
TranslationsInverse ==
  \A p \in 0..heap.brk :
    /\ toObject_ptr(T, toZendObject(T, p)) = p
    /\ toZendObject(T, toObject_ptr(T, p)) = p

\* C17 as stated: the translations are mutual inverses, and header address
\* and payload address differ by the size of the host object header.
C17_TranslationAsStated ==
  /\ TranslationsInverse
  /\ \A h \in PayloadBlocks :
       /\ toZendObject(T, heap.blk[h].ptr) - heap.blk[h].ptr =
            sizeof_zend_object
       /\ heap.blk[h].zobj - toObject_ptr(T, heap.blk[h].zobj) =
            sizeof_zend_object

\* C17 amended: the translations are mutual inverses, and header address and
\* payload address differ by sizeof(T), the size of the native payload, in
\* both directions; the header of every block allocObject made lies that far
\* behind the address the allocator returned.
C17_TranslationInverse ==
  /\ TranslationsInverse
  /\ \A h \in PayloadBlocks :
       /\ toZendObject(T, heap.blk[h].ptr) = heap.blk[h].zobj
       /\ toObject_ptr(T, heap.blk[h].zobj) = heap.blk[h].ptr
       /\ toZendObject(T, heap.blk[h].ptr) - heap.blk[h].ptr = sizeof_Simple
       /\ heap.blk[h].zobj - toObject_ptr(T, heap.blk[h].zobj) = sizeof_Simple

\* C17 witness: a method ran on the second of two wrapped instances, whose
\* payload toObject found sizeof(Simple) before its header.
C17_Witness ==
  /\ call.op = "takeANumber"
  /\ Cardinality(Wrapped(objs)) = 2
  /\ \E h \in Wrapped(objs) :
       /\ h < call.a.val
       /\ heap.blk[call.a.val].ptr > heap.blk[h].zobj
  /\ toObject_ptr(T, heap.blk[call.a.val].zobj) = heap.blk[call.a.val].ptr

\* What the claim says of the handler table apart from the compare slot.
HandlerTableOf(n, t) ==
  /\ classes.handlers[n].free_obj = "dtorObject"
  /\ classes.handlers[n].cast_object = "castObject"
  /\ classes.handlers[n].clone_obj =
       (IF t.copy THEN "cloneObject" ELSE "nullptr")
  /\ classes.handlers[n].offset = t.size
  /\ classes.ce[n].create_object =
       (IF t.ctor THEN "createObject" ELSE "createThrownObject")

\* The recorded offset leads from the header of every block allocObject made
\* to the address the allocator returned, where the host releases it.
OffsetLeadsToBlock ==
  \A h \in PayloadBlocks :
    /\ heap.blk[h].zobj - classes.handlers["T"].offset = heap.blk[h].ptr
    /\ ~heap.blk[h].live => heap.blk[h].released = heap.blk[h].ptr

\* C18 as stated: after initClassEntry<T> the table holds destroy, cast and
\* compare = compareObject<T>, clone when T is copy-constructible and an
\* empty slot otherwise, the offset from block start to header, and the
\* class's create hook is createObject<T> or createThrownObject<T>.
C18_HandlerTableAsStated ==
  /\ HandlerTableOf("T", T)
  /\ HandlerTableOf("U", Unconstructible)
  /\ OffsetLeadsToBlock
  /\ classes.handlers["T"].compare = "compareObject"
  /\ classes.handlers["U"].compare = "compareObject"

\* C18 amended: the same, with compare = compareObject<T> in the builds that
\* define compareObject (part_002, part_003); src/p3.h installs no compare
\* hook and the slot keeps the host's standard (empty) value.
C18_HandlerTable ==
  /\ HandlerTableOf("T", T)
  /\ HandlerTableOf("U", Unconstructible)
  /\ OffsetLeadsToBlock
  /\ \A n \in {"T", "U"} :
       classes.handlers[n].compare =
         (IF hdr \in CompareHeaders THEN "compareObject" ELSE "nullptr")

\* C18 witness: a T without copy constructor, its clone slot empty, whose
\* instance the host released at header address minus the recorded offset.
C18_Witness ==
  /\ ~T.copy
  /\ classes.handlers["T"].clone_obj = "nullptr"
  /\ call.op = "dtorObject"
  /\ heap.blk[call.a.val].released =
       heap.blk[call.a.val].zobj - classes.handlers["T"].offset
  /\ heap.blk[call.a.val].released = heap.blk[call.a.val].ptr

---------------------------------------------------------------------------
\* The claim about the errors the hooks raise (under SpecHooks).

\* The steps of a hook that are no call of the host's error reporting.
QuietSteps ==
  {"ecalloc", "T()", "T(const T&)", "zend_object_std_init", "handlers",
   "zend_objects_new", "zend_object_std_dtor", "~T", "efree"}

Raised == {i \in DOMAIN events : events[i].step \notin QuietSteps}

\* C19: whatever hooks ran before, a hook call raises a host error only when
\* it is the create hook of the type without default constructor; castObject
\* and compareObject raise none for any input, a cast to the resource kind
\* and a comparison no overload applies to included, and report failure
\* through the FAILURE status alone.
C19_OnlyCreateRaises ==
  /\ Raised # {} => call.op = "createThrownObject"
  /\ call.op \in {"castObject", "compareObject"} => events = <<>>
  /\ (IsCastCall /\ call.kind = "IS_RESOURCE") =>
       call.status = FAILURE /\ Raised = {}
  /\ (IsCompareCall /\ call.calls = <<>>) =>
       call.status = FAILURE /\ Raised = {}

\* C19 witness: a cast to the resource kind returned FAILURE without any
\* error, an unconstructible placeholder having been created before.
C19_Witness ==
  /\ IsCastCall
  /\ call.kind = "IS_RESOURCE"
  /\ call.status = FAILURE
  /\ events = <<>>
  /\ \E h \in DOMAIN heap.blk : heap.blk[h].ce = "U"

---------------------------------------------------------------------------
\* The claim about the example type MyFile (under SpecFile).

\* The open file description an instance's descriptor refers to (0: none).
OfdOf(k, o) == IF FdValid(k, o.fd) THEN k.fdt[o.fd - 2] ELSE 0

\* The position an instance observes.
PosOf(k, o) == k.ofd[OfdOf(k, o)].pos

\* The live instances other than h.
Others(os, h) == {g \in DOMAIN os : g # h /\ os[g].handlers = "T"}

\* The number of bytes a returned read() or write() reports: the length of
\* the string, or the integer.
Transferred(c) ==
  IF c.op = "read" THEN size_t_value(c.out.str) ELSE c.out.val

\* C20: the clone of an open MyFile holds a descriptor other than the
\* source's that refers to the same open file description, the clone of an
\* unopened MyFile is unopened; a read or write through one instance moves
\* the position every instance sharing the description observes; and
\* closing (re-opening) or destroying one instance leaves the descriptor of
\* every other instance open, on the same description at the same position
\* (in a process the re-opening did not abort).
C20_CloneSharesPosition ==
  /\ [](call.op = "cloneObject" =>
          LET src == objs[call.a.val]
              new == objs[call.out.val]
          IN  /\ MyFile_isOpen(src) =>
                   /\ MyFile_isOpen(new)
                   /\ new.fd # src.fd
                   /\ FdValid(kern, new.fd) /\ FdValid(kern, src.fd)
                   /\ OfdOf(kern, new) = OfdOf(kern, src)
              /\ ~MyFile_isOpen(src) => ~MyFile_isOpen(new))
  /\ [][/\ (call'.op \in {"read", "write"} /\ call'.status = SUCCESS) =>
             LET h == call'.a.val
             IN  \A g \in Others(objs, h) :
                   (OfdOf(kern, objs[g]) # 0 /\
                    OfdOf(kern, objs[g]) = OfdOf(kern, objs[h])) =>
                     /\ PosOf(kern', objs'[g]) = PosOf(kern', objs'[h])
                     /\ (/\ Transferred(call') > 0
                         /\ Transferred(call') <= call'.b.val
                         /\ ~kern.ofd[OfdOf(kern, objs[h])].ap)
                          => PosOf(kern', objs'[g]) =
                               PosOf(kern, objs[g]) + Transferred(call')
        /\ (call'.op \in {"dtorObject", "__construct"} /\
            call'.status # SIGABRT) =>
             \A g \in Others(objs, call'.a.val) :
               OfdOf(kern, objs[g]) # 0 =>
                 /\ objs'[g].fd = objs[g].fd
                 /\ OfdOf(kern', objs'[g]) = OfdOf(kern, objs[g])
                 /\ kern'.ofd[OfdOf(kern', objs'[g])] =
                      kern.ofd[OfdOf(kern, objs[g])]]_vars

\* C20 witness: one byte was read through an instance that shares its open
\* file description with another instance under another descriptor, and both
\* now observe position 1.
C20_Witness ==
  /\ call.op = "read"
  /\ call.status = SUCCESS
  /\ Transferred(call) = 1
  /\ \E g \in Others(objs, call.a.val) :
       /\ objs[g].fd # objs[call.a.val].fd
       /\ OfdOf(kern, objs[g]) # 0
       /\ OfdOf(kern, objs[g]) = OfdOf(kern, objs[call.a.val])
       /\ PosOf(kern, objs[g]) = 1

---------------------------------------------------------------------------
\* The remaining claims about the compare hook (under SpecCompare).

\* C21: two wrapped instances of the same T, T declaring no
\* int compare(const T&) const but int compare(const zend_object*) const:
\* the object-kind overload is the one called, SUCCESS with rv equal to
\* a.compare(header of b); only when that overload is absent too is the
\* generic overload reached.
C21_ObjectTier ==
  (/\ IsCompareCall
   /\ IsWrappedT(objs, call.a)
   /\ IsWrappedT(objs, call.b)
   /\ ~hasCompare(T, "const T&")) =>
    /\ hasCompare(T, "const zend_object*") =>
         /\ call.status = SUCCESS
         /\ call.out = OverloadResult(call.a, "const zend_object*", call.b)
         /\ call.calls = OnlyCall("const zend_object*", call.b)
    /\ (~hasCompare(T, "const zend_object*") /\ hasCompare(T, "const zval*"))
         => call.calls = OnlyCall("const zval*", call.b)

\* Whether a value is an object carrying T's handler table.
HoldsT(z) == z.type = "IS_OBJECT" /\ objs[z.val].handlers = "T"

\* C22: a comparison with at least one wrapped T among its operands returns
\* after at most one operand-swapped recursive call: none when a is a
\* wrapped T, and exactly one when only b is, the swapped call finding the
\* wrapped T in first position and not swapping again.
C22_OneSwapAtMost ==
  (IsCompareCall /\ (HoldsT(call.a) \/ HoldsT(call.b))) =>
    /\ call.status \in {SUCCESS, FAILURE}
    /\ call.swaps <= 1
    /\ call.swaps = 0 <=> HoldsT(call.a)
    /\ call.swaps = 1 => HoldsT(call.b)
    /\ Len(call.calls) <= 1

\* C22 witness: a comparison whose first operand is an object of another
\* class and whose second is a wrapped T returned after one swap.
C22_Witness ==
  /\ IsCompareCall
  /\ call.a.type = "IS_OBJECT"
  /\ ~HoldsT(call.a)
  /\ HoldsT(call.b)
  /\ call.swaps = 1
  /\ call.status = SUCCESS

---------------------------------------------------------------------------
\* The remaining claim about the cast hook (under SpecCast).

\* C23: after a successful cast to the string kind (array kind), dest holds
\* the zend_string (zend_array) that toString() (toArray()) returned, with
\* the reference count the method returned it with: the hook hands the
\* returned reference on to dest and takes none of its own, so one release
\* of dest frees a freshly allocated result.
C23_CastTransfersReference ==
  (/\ IsCastCall
   /\ call.status = SUCCESS
   /\ call.kind \in {"IS_STRING", "IS_ARRAY"}) =>
    LET p == IF call.kind = "IS_STRING" THEN "String" ELSE "Array"
        ret == toPtype(p, toObject(objs, call.a))
    IN  /\ call.out.type = call.kind
        /\ call.out.str = ret.str
        /\ call.out.val = ret.val
        /\ call.out.rc = ret.rc
        /\ ret.rc = 1 => call.out.rc - 1 = 0

---------------------------------------------------------------------------
\* The remaining claim about MyFile (under SpecFile).

\* Whether the ::read behind the returned read() call failed: the instance
\* is open and its descriptor refuses the read (a failed read changes
\* nothing, so the state after the call still shows it).
ReadFailed ==
  /\ call.op = "read"
  /\ call.b.val >= 1
  /\ MyFile_isOpen(objs[call.a.val])
  /\ sys_read(kern, objs[call.a.val].fd, call.b.val).ret = -1

\* C24: read on an open MyFile whose ::read fails: MyFile::read returns
\* null and the method raises "Failure reading from file" instead of
\* returning a string; a string returned has its terminator, and so every
\* byte written, within the len + 1 bytes of its buffer; on an instance that
\* is not open read fails with that same error and write fails (-1), and
\* neither touches a descriptor.
C24_FailedRead ==
  /\ [](ReadFailed =>
          /\ call.status = FAILURE
          /\ call.out = UNINIT
          /\ events = <<Ev("method", "Failure reading from file", "")>>)
  /\ []((call.op = "read" /\ call.status = SUCCESS) =>
          /\ call.kind = "buffer"
          /\ size_t_value(call.out.str) <= call.b.val)
  /\ []((/\ call.op \in {"read", "write"}
         /\ ~MyFile_isOpen(objs[call.a.val])
         /\ (call.op = "read" => call.b.val >= 1)) =>
          /\ call.status = FAILURE
          /\ events =
               <<Ev("method",
                    IF call.op = "read" THEN "Failure reading from file"
                    ELSE "Failure writing to file", "")>>)
  /\ [][(call'.op \in {"read", "write"} /\ ~MyFile_isOpen(objs[call'.a.val]))
          => kern' = kern]_vars

=============================================================================
